---- MODULE Spec2Model ----
(***************************************************************************)
(* Model of src/main.py (FileBrowser): the MIME/extension dispatch of      *)
(* on_directory_tree_file_selected, the preview pane it updates, and the   *)
(* half-block rasterizer img_to_string.                                    *)
(*                                                                         *)
(* Python strings are sequences of one-character strings, so that          *)
(* str.split and os.path.basename are computed, not assumed.               *)
(***************************************************************************)
EXTENDS Naturals, Integers, Sequences, FiniteSets, TLC

VARIABLES
    \* ---- dispatch of one selection, as a pure function (SpecSelect)
    sel_mime,          \* the string magic_from_file returned
    sel_path,          \* event.path
    sel_target,        \* the view the dispatch ended in ("" before it ran)
    \* ---- img_to_string (SpecRaster)
    img_size,          \* img.size = <<img_width, img_height>>
    dest_width,        \* parameter dest_width
    unicode,           \* parameter unicode
    r_pc,              \* "start" | "loop" | "done" | "raised"
    r_y,               \* the outer loop's y
    output,            \* the rows appended so far
    row_reads,         \* the getpixel coordinates of the last outer iteration
    consumed,          \* per resampled row: how many output rows read it
    \* ---- the running application (Spec)
    content,           \* what Static#code displays
    viewbox_classes,   \* classes of VerticalScroll#code-view
    preview_classes,   \* classes of Static#code
    sub_title,         \* App.sub_title
    scroll_y,          \* scroll offset of VerticalScroll#code-view
    app,               \* "running" | "exited" | "crashed"
    last,              \* the last selection event and what its handler did
    prev_kind          \* content.kind before the last selection event

selVars    == <<sel_mime, sel_path, sel_target>>
rasterVars == <<img_size, dest_width, unicode, r_pc, r_y, output, row_reads, consumed>>
paneVars   == <<content, viewbox_classes, preview_classes, sub_title, scroll_y,
                app, last, prev_kind>>
vars       == <<selVars, rasterVars, paneVars>>

(***************************************************************************)
(* Strings                                                                 *)
(***************************************************************************)
s_application == <<"a","p","p","l","i","c","a","t","i","o","n">>
s_text        == <<"t","e","x","t">>
s_image       == <<"i","m","a","g","e">>
s_audio       == <<"a","u","d","i","o">>
s_inode       == <<"i","n","o","d","e">>
s_plain       == <<"p","l","a","i","n">>
s_html        == <<"h","t","m","l">>
s_png         == <<"p","n","g">>
s_json        == <<"j","s","o","n">>
s_md          == <<"m","d">>
s_text_plain  == s_text \o <<"/">> \o s_plain

\* str.split(sep) for a one-character separator: the segments between
\* separators, empty segments kept, at least one segment.
RECURSIVE split(_, _)
split(s, sep) ==
    IF \A i \in 1..Len(s) : s[i] # sep
    THEN <<s>>
    ELSE LET k == CHOOSE i \in 1..Len(s) :
                    s[i] = sep /\ \A j \in 1..(i - 1) : s[j] # sep
         IN  <<SubSeq(s, 1, k - 1)>> \o split(SubSeq(s, k + 1, Len(s)), sep)

\* os.path.basename: what follows the last "/".
basename(p) ==
    LET parts == split(p, "/") IN parts[Len(parts)]

(***************************************************************************)
(* The dispatch: which view a selection with sniffed MIME `mime` and path  *)
(* `path` ends in.  "label" is the default case of the top-level match     *)
(* (preview.update(mime)); "sniffed_label" is the no-extension branch of   *)
(* on_text_plain, which reads the file for magic_from_buffer first.        *)
(***************************************************************************)
on_t_plain_ext(file_ext, path) ==
    IF file_ext = s_md THEN "on_markdown_view" ELSE "on_code_view"

\* A plausible slip: the extension taken from the last segment.
on_text_plain_last_segment(mime, path) ==
    IF mime = s_text_plain
    THEN LET file_ext == split(basename(path), ".")
         IN  IF Len(file_ext) > 1
             THEN on_t_plain_ext(file_ext[Len(file_ext)], path)
             ELSE "sniffed_label"
    ELSE "on_code_view"

on_text_plain(mime, path) ==
    IF mime = s_text_plain
    THEN LET file_ext == split(basename(path), ".")
         IN  IF Len(file_ext) > 1
             THEN on_t_plain_ext(file_ext[2], path)
             ELSE "sniffed_label"
    ELSE "on_code_view"

on_text(mime, path) ==
    IF mime = s_text_plain THEN on_text_plain(mime, path) ELSE "on_code_view"

\* A plausible slip: the case for `application` routed through on_text's
\* sibling, the extension-sensitive on_text_plain.
file_selected_target_app_by_ext(mime, path) ==
    LET tlt == split(mime, "/")[1]
    IN  CASE tlt = s_application -> on_text_plain(s_text_plain, path)
          [] tlt = s_text        -> on_text(mime, path)
          [] tlt = s_image       -> "on_image_view"
          [] OTHER               -> "label"

file_selected_target(mime, path) ==
    LET tlt == split(mime, "/")[1]
    IN  CASE tlt = s_application -> "on_code_view"
          [] tlt = s_text        -> on_text(mime, path)
          [] tlt = s_image       -> "on_image_view"
          [] OTHER               -> "label"

\* The render mode a view stands for (the specification's names).
ModeOf(target) ==
    CASE target = "on_code_view"     -> "CodeView"
      [] target = "on_markdown_view" -> "MarkdownView"
      [] target = "on_image_view"    -> "ImageView"
      [] target \in {"label", "sniffed_label"} -> "RawMimeLabel"
      [] OTHER -> "none"

(***************************************************************************)
(* SpecSelect: the dispatch on every MIME string and path of a bounded     *)
(* universe.                                                               *)
(***************************************************************************)
MaxNameLen == 4

NameChars == {"m", "d", "."}

RECURSIVE SeqsUpTo(_, _)
SeqsUpTo(S, n) ==
    IF n = 0 THEN {<<>>}
    ELSE LET shorter == SeqsUpTo(S, n - 1)
         IN  shorter \cup {Append(q, c) : q \in shorter, c \in S}

NamedFiles == {
    <<"a","r","c","h","i","v","e",".","t","a","r",".","g","z">>,
    <<"n","o","t","e","s",".","b","a","c","k","u","p",".","m","d">>,
    <<"n","o","t","e","s",".","m","d">>,
    <<".","m","d">>,
    <<".","b","a","s","h","r","c">>,
    <<"f","i","l","e",".">>,
    <<"R","E","A","D","M","E">>,
    <<"p","h","o","t","o",".","p","n","g">> }

FileNames == (SeqsUpTo(NameChars, MaxNameLen) \ {<<>>}) \cup NamedFiles

Dirs == { <<"/">>, <<"/","d",".","m","/">> }

SelPaths == {d \o n : d \in Dirs, n \in FileNames}

MimeTops == {s_application, s_text, s_image, s_audio, s_inode}
MimeSubs == {s_plain, s_html, s_png, s_json}
Mimes    == {t \o <<"/">> \o u : t \in MimeTops, u \in MimeSubs}

RasterIdle ==
    /\ img_size = <<1, 1>> /\ dest_width = 1 /\ unicode = TRUE
    /\ r_pc = "idle" /\ r_y = 0 /\ output = <<>>
    /\ row_reads = {} /\ consumed = <<>>

EmptyContent == [kind |-> "empty", of |-> <<>>]
NoEvent      == [path |-> <<>>, sniffed |-> FALSE, mime |-> <<>>, opened |-> FALSE,
                 bitmap |-> <<1, 1>>, target |-> "", outcome |-> "none",
                 reads |-> 0, scroll_before |-> 0, scroll_after |-> 0]

PaneIdle ==
    /\ content = EmptyContent
    /\ viewbox_classes = {} /\ preview_classes = {}
    /\ sub_title = <<>>
    /\ scroll_y = 0 /\ app = "idle" /\ last = NoEvent /\ prev_kind = "empty"

SelectInit ==
    /\ sel_mime \in Mimes /\ sel_path \in SelPaths /\ sel_target = ""
    /\ RasterIdle /\ PaneIdle

\* on_directory_tree_file_selected's dispatch, applied to the drawn input.
SelectDispatch ==
    /\ sel_target = ""
    /\ sel_target' = file_selected_target(sel_mime, sel_path)
    /\ UNCHANGED <<sel_mime, sel_path, rasterVars, paneVars>>

SelectNext == SelectDispatch

SpecSelect == SelectInit /\ [][SelectNext]_vars

(***************************************************************************)
(* Claims about the dispatch (checked under SpecSelect).  The decision     *)
(* table is stated with its own reading of "top-level type" and            *)
(* "extension", by index arithmetic rather than by split.                  *)
(***************************************************************************)
\* The least index of c in s, Len(s) + 1 when c does not occur.
FirstIndex(s, c) ==
    IF \E i \in 1..Len(s) : s[i] = c
    THEN CHOOSE i \in 1..Len(s) : s[i] = c /\ \A j \in 1..(i - 1) : s[j] # c
    ELSE Len(s) + 1

\* The greatest index of c in s, 0 when c does not occur.
LastIndex(s, c) ==
    IF \E i \in 1..Len(s) : s[i] = c
    THEN CHOOSE i \in 1..Len(s) : s[i] = c /\ \A j \in (i + 1)..Len(s) : s[j] # c
    ELSE 0

TopLevelType(mime) == SubSeq(mime, 1, FirstIndex(mime, "/") - 1)

BaseName(p) == SubSeq(p, LastIndex(p, "/") + 1, Len(p))

HasExtension(p) == \E i \in 1..Len(BaseName(p)) : BaseName(p)[i] = "."

\* The first dot-delimited segment after the first dot of the base name.
Extension(p) ==
    LET b    == BaseName(p)
        rest == SubSeq(b, FirstIndex(b, ".") + 1, Len(b))
    IN  SubSeq(rest, 1, FirstIndex(rest, ".") - 1)

SameExtension(p, q) ==
    /\ HasExtension(p) = HasExtension(q)
    /\ HasExtension(p) => Extension(p) = Extension(q)

ProbePaths == {d \o n : d \in Dirs, n \in NamedFiles \cup SeqsUpTo(NameChars, 2)}

\* C1: after the dispatch of any (MIME, path): top-level type application
\* gives CodeView whatever the extension, text/* other than text/plain gives
\* CodeView, image gives ImageView, any other top-level type gives
\* RawMimeLabel; and any path with the same extension (present or absent)
\* gets the same mode for the same MIME.
C1_DecisionTable ==
    sel_target # "" =>
        LET top  == TopLevelType(sel_mime)
            mode == ModeOf(sel_target)
        IN  /\ top = s_application => mode = "CodeView"
            /\ (top = s_text /\ sel_mime # s_text_plain) => mode = "CodeView"
            /\ top = s_image => mode = "ImageView"
            /\ top \notin {s_application, s_text, s_image} => mode = "RawMimeLabel"
            /\ mode \in {"CodeView", "MarkdownView", "ImageView", "RawMimeLabel"}
            /\ \A q \in ProbePaths :
                   SameExtension(q, sel_path) =>
                       ModeOf(file_selected_target(sel_mime, q)) = mode

\* An application/* file named *.md has been dispatched (extension ignored).
C1_Witness ==
    /\ sel_target = "on_code_view"
    /\ TopLevelType(sel_mime) = s_application
    /\ HasExtension(sel_path) /\ Extension(sel_path) = s_md

\* C2: for MIME exactly text/plain: extension md gives MarkdownView, any
\* other extension CodeView, no extension RawMimeLabel, the extension being
\* the first segment after the first dot of the base name; so
\* archive.tar.gz, notes.backup.md, .bashrc and file. are CodeView, .md and
\* notes.md are MarkdownView and README is RawMimeLabel.
C2_TextPlainByExtension ==
    (sel_target # "" /\ sel_mime = s_text_plain) =>
        LET mode == ModeOf(sel_target)
            name == BaseName(sel_path)
        IN  /\ (HasExtension(sel_path) /\ Extension(sel_path) = s_md)
                   => mode = "MarkdownView"
            /\ (HasExtension(sel_path) /\ Extension(sel_path) # s_md)
                   => mode = "CodeView"
            /\ ~HasExtension(sel_path) => mode = "RawMimeLabel"
            /\ name = <<"a","r","c","h","i","v","e",".","t","a","r",".","g","z">>
                   => mode = "CodeView"
            /\ name = <<"n","o","t","e","s",".","b","a","c","k","u","p",".","m","d">>
                   => mode = "CodeView"
            /\ name = <<".","b","a","s","h","r","c">> => mode = "CodeView"
            /\ name = <<"f","i","l","e",".">> => mode = "CodeView"
            /\ name = <<".","m","d">> => mode = "MarkdownView"
            /\ name = <<"n","o","t","e","s",".","m","d">> => mode = "MarkdownView"
            /\ name = <<"R","E","A","D","M","E">> => mode = "RawMimeLabel"

\* archive.tar.gz sniffed as text/plain has been dispatched to the code view.
C2_Witness ==
    /\ sel_target = "on_code_view"
    /\ sel_mime = s_text_plain
    /\ BaseName(sel_path) = <<"a","r","c","h","i","v","e",".","t","a","r",".","g","z">>

(***************************************************************************)
(* img_to_string                                                           *)
(***************************************************************************)
DefaultDestWidth == 80

MaxImgWidth  == 81
MaxImgHeight == 3
MaxDestWidth == 3

\* int(img_height / (img_width / dest_width)).  The source divides in
\* floating point; on the sizes drawn here (and one beyond each bound) the
\* double result truncates to the exact integer quotient, which is what
\* this computes.
truncated_height(img_width, img_height, to_width) ==
    (img_height * to_width) \div img_width

\* A plausible slip: the odd height is not bumped.
dest_height_of_unbumped(img_width, img_height, to_width) ==
    truncated_height(img_width, img_height, to_width)

\* dest_height after the parity adjustment.
dest_height_of(img_width, img_height, to_width) ==
    LET dest_height == truncated_height(img_width, img_height, to_width)
    IN  IF dest_height % 2 # 0 THEN dest_height + 1 ELSE dest_height

\* img.resize((dest_width, dest_height)) raises ValueError("height and width
\* must be > 0") for an empty target size.
resize_raises(width, height) == width < 1 \/ height < 1

\* img.getpixel(xy) raises IndexError outside the (resized) image.
getpixel_raises(xy, width, height) ==
    ~(xy[1] \in 0..(width - 1) /\ xy[2] \in 0..(height - 1))

\* The coordinates the inner loop reads for the outer loop's y.
reads_of_row(width, y, uni) ==
    {<<x, y>> : x \in 0..(width - 1)}
        \cup (IF uni THEN {<<x, y + 1>> : x \in 0..(width - 1)} ELSE {})

\* The cells the inner loop appends for the outer loop's y; a pixel is named
\* by its coordinates in the resized image.
row_of(width, y, uni) ==
    [i \in 1..width |->
        IF uni THEN [glyph |-> "upper-half", fg |-> <<i - 1, y>>, bg |-> <<i - 1, y + 1>>]
               ELSE [glyph |-> "space", bg |-> <<i - 1, y>>]]

DestHeight == dest_height_of(img_size[1], img_size[2], dest_width)

DestWidths == (1..MaxDestWidth) \cup {DefaultDestWidth}

SelectIdle == sel_mime = <<>> /\ sel_path = <<>> /\ sel_target = "idle"

RasterInit ==
    /\ img_size \in (1..MaxImgWidth) \X (1..MaxImgHeight)
    /\ dest_width \in DestWidths
    /\ unicode \in BOOLEAN
    /\ r_pc = "start" /\ r_y = 0 /\ output = <<>>
    /\ row_reads = {} /\ consumed = <<>>
    /\ SelectIdle /\ PaneIdle

\* Lines 50-55: the height, the resize, the empty output.
RasterResize ==
    /\ r_pc = "start"
    /\ r_pc' = IF resize_raises(dest_width, DestHeight) THEN "raised" ELSE "loop"
    /\ r_y' = 0
    /\ output' = <<>>
    /\ row_reads' = {}
    /\ consumed' = [row \in 1..DestHeight |-> 0]
    /\ UNCHANGED <<img_size, dest_width, unicode, selVars, paneVars>>

\* Lines 57-67: one iteration of the outer loop (the whole inner loop and the
\* line break).  consumed[row + 1] counts the output rows that read row.
RasterRow ==
    /\ r_pc = "loop"
    /\ r_y < DestHeight
    /\ LET reads == reads_of_row(dest_width, r_y, unicode)
       IN  /\ row_reads' = reads
           /\ IF \E xy \in reads : getpixel_raises(xy, dest_width, DestHeight)
              THEN /\ r_pc' = "raised"
                   /\ UNCHANGED <<r_y, output, consumed>>
              ELSE /\ r_pc' = "loop"
                   /\ r_y' = r_y + 2
                   /\ output' = Append(output, row_of(dest_width, r_y, unicode))
                   /\ consumed' =
                        [row \in 1..DestHeight |->
                            IF \E xy \in reads : xy[2] = row - 1
                            THEN consumed[row] + 1 ELSE consumed[row]]
    /\ UNCHANGED <<img_size, dest_width, unicode, selVars, paneVars>>

\* Line 69: the loop is over, the string is returned.
RasterReturn ==
    /\ r_pc = "loop"
    /\ r_y >= DestHeight
    /\ r_pc' = "done"
    /\ UNCHANGED <<img_size, dest_width, unicode, r_y, output, row_reads, consumed,
                   selVars, paneVars>>

RasterNext == RasterResize \/ RasterRow \/ RasterReturn

SpecRaster == RasterInit /\ [][RasterNext]_vars

(***************************************************************************)
(* Claims about img_to_string (checked under SpecRaster).                  *)
(***************************************************************************)
\* The integer part of height / (width / destWidth), bumped by one when odd.
AdjustedHeight ==
    LET part == (img_size[2] * dest_width) \div img_size[1]
    IN  IF part % 2 = 1 THEN part + 1 ELSE part

\* C5: for every bitmap of width >= 1 and height >= 1, however wide, the
\* call with destWidth = 80 returns a string whose first row has exactly 80
\* cells, every row has 80 cells, and the number of rows is
\* ceil(adjustedHeight / 2).
C5_EightyColumnsOnAnyBitmap ==
    (r_pc \in {"done", "raised"} /\ dest_width = DefaultDestWidth) =>
        /\ r_pc = "done"
        /\ Len(output) >= 1
        /\ \A i \in 1..Len(output) : Len(output[i]) = DefaultDestWidth
        /\ Len(output) = (AdjustedHeight + 1) \div 2

InBounds(xy) ==
    /\ 0 <= xy[1] /\ xy[1] < dest_width
    /\ 0 <= xy[2] /\ xy[2] < AdjustedHeight

\* C10 as stated: every pixel read lies inside the resampled bitmap
\* (0 <= x < destWidth, 0 <= y, y + 1 < adjustedHeight in unicode mode), the
\* adjusted height is even, and every row of the resampled bitmap is
\* consumed by exactly one output row.
C10_EveryRowConsumedOnce ==
    /\ \A xy \in row_reads : InBounds(xy)
    /\ AdjustedHeight % 2 = 0
    /\ r_pc = "done" =>
           \A row \in 0..(AdjustedHeight - 1) : consumed[row + 1] = 1

\* C10 as amended: the reads are inside the resampled bitmap and the
\* adjusted height is even; in unicode mode every row is consumed by exactly
\* one output row, in non-unicode mode every even row is consumed by exactly
\* one output row and no odd row is read at all.
C10_ReadsInBounds ==
    /\ \A xy \in row_reads : InBounds(xy)
    /\ r_pc # "start" => DestHeight = AdjustedHeight /\ DestHeight % 2 = 0
    /\ r_pc = "raised" => row_reads = {}
    /\ r_pc = "done" =>
           /\ Len(output) * 2 = AdjustedHeight
           /\ \A row \in 0..(AdjustedHeight - 1) :
                  consumed[row + 1] = IF unicode \/ row % 2 = 0 THEN 1 ELSE 0

\* A unicode call at width 80 whose truncated height was odd has returned
\* at least two rows.
C10_Witness ==
    /\ r_pc = "done" /\ unicode /\ dest_width = DefaultDestWidth
    /\ ((img_size[2] * dest_width) \div img_size[1]) % 2 = 1
    /\ Len(output) >= 2
    /\ \E xy \in row_reads : xy[2] = AdjustedHeight - 1

(***************************************************************************)
(* The running application: the preview pane and the selection handler.    *)
(***************************************************************************)
s_mpeg == <<"m","p","e","g">>

MimeTypeMarker == <<"M","i","m","e"," ","T","y","p","e">>
ErrorMarker    == <<"E","R","R","O","R"," ",":","w","a","r","n","i","n","g",":">>

MaxScroll == 2

\* The files of the tree the user can select.
TreePaths == {
    <<"/">> \o <<"n","o","t","e","s",".","m","d">>,
    <<"/">> \o <<"R","E","A","D","M","E">>,
    <<"/">> \o <<"p","h","o","t","o",".","p","n","g">>,
    <<"/">> \o <<"a","r","c","h","i","v","e",".","t","a","r",".","g","z">> }

\* What magic_from_file may answer for a file: it depends on the content.
PaneMimes == {
    s_application \o <<"/">> \o s_json,
    s_text_plain,
    s_image \o <<"/">> \o s_png,
    s_audio \o <<"/">> \o s_mpeg }

\* The sizes Image.open may give: a landscape photo and a one-pixel-high strip.
Bitmaps == { <<640, 480>>, <<200, 1>> }

\* The pane as one record.
Pane == [content |-> content, viewbox_classes |-> viewbox_classes,
         preview_classes |-> preview_classes, sub_title |-> sub_title,
         scroll_y |-> scroll_y]

\* Lines 71-74.  Traceback() renders the exception being handled, which is
\* the one the render of `path` raised.
on_exception(pane, path) ==
    [pane EXCEPT !.content = [kind |-> "traceback", of |-> path],
                 !.sub_title = ErrorMarker]

\* Lines 124-143; `opened` is whether open/read/Markdown(...) went through.
on_markdown_view(pane, path, opened) ==
    IF ~opened
    THEN on_exception(pane, path)
    ELSE [pane EXCEPT !.viewbox_classes = (@ \cup {"code-view"}) \ {"image-view"},
                      !.preview_classes = @ \ {"image"},
                      !.content = [kind |-> "markdown", of |-> path],
                      !.scroll_y = 0,
                      !.sub_title = path]

\* A plausible slip: the code view without its scroll_home.
on_code_view_no_scroll_home(pane, path, opened) ==
    IF ~opened
    THEN on_exception(pane, path)
    ELSE [pane EXCEPT !.viewbox_classes = (@ \cup {"code-view"}) \ {"image-view"},
                      !.preview_classes = @ \ {"image"},
                      !.content = [kind |-> "syntax", of |-> path],
                      !.sub_title = path]

\* Lines 145-164; `opened` is whether Syntax.from_path went through.
on_code_view(pane, path, opened) ==
    IF ~opened
    THEN on_exception(pane, path)
    ELSE [pane EXCEPT !.viewbox_classes = (@ \cup {"code-view"}) \ {"image-view"},
                      !.preview_classes = @ \ {"image"},
                      !.content = [kind |-> "syntax", of |-> path],
                      !.scroll_y = 0,
                      !.sub_title = path]

\* img_to_string(img=image, dest_width=80) raises when its resize does.
img_to_string_raises(bitmap) ==
    resize_raises(DefaultDestWidth,
                  dest_height_of(bitmap[1], bitmap[2], DefaultDestWidth))

\* Lines 166-180; `opened` is whether Image.open went through.  No
\* scroll_home here.
on_image_view(pane, path, opened, bitmap) ==
    IF ~opened \/ img_to_string_raises(bitmap)
    THEN on_exception(pane, path)
    ELSE [pane EXCEPT !.viewbox_classes = (@ \ {"code-view"}) \cup {"image-view"},
                      !.preview_classes = @ \cup {"image"},
                      !.content = [kind |-> "image", of |-> path],
                      !.sub_title = path]

\* A plausible slip: the label branch sets the subtitle as the views do.
label_update_path_subtitle(pane, mime, path) ==
    [pane EXCEPT !.content = [kind |-> "label", of |-> mime],
                 !.sub_title = path]

\* Lines 92-93 and 111-112: preview.update(mime), the "Mime Type" subtitle.
label_update(pane, mime, path) ==
    [pane EXCEPT !.content = [kind |-> "label", of |-> mime],
                 !.sub_title = MimeTypeMarker]

\* Whether a view that was entered rendered or went through on_exception.
render_outcome(target, opened, bitmap) ==
    IF opened /\ (target = "on_image_view" => ~img_to_string_raises(bitmap))
    THEN "rendered" ELSE "failed"

\* on_directory_tree_file_selected as a whole, on the pane `pane`:
\*   sniffed = FALSE: magic_from_file raised (line 81, outside any try);
\*   opened  = FALSE: the one file access after the sniff raised, which the
\*   views catch and the buffer read of line 110 does not.
\* The result is the pane afterwards, what happened, and how many times the
\* handler opened the file after the sniff.
file_selected(pane, path, sniffed, mime, opened, bitmap) ==
    IF ~sniffed
    THEN [pane |-> pane, target |-> "", outcome |-> "escaped", reads |-> 0]
    ELSE LET target == file_selected_target(mime, path)
         IN  CASE target = "label" ->
                    [pane |-> label_update(pane, mime, path), target |-> target,
                     outcome |-> "labelled", reads |-> 0]
               [] target = "sniffed_label" ->
                    IF opened
                    THEN [pane |-> label_update(pane, mime, path), target |-> target,
                          outcome |-> "labelled", reads |-> 1]
                    ELSE [pane |-> pane, target |-> target,
                          outcome |-> "escaped", reads |-> 1]
               [] target = "on_code_view" ->
                    [pane |-> on_code_view(pane, path, opened), target |-> target,
                     outcome |-> render_outcome(target, opened, bitmap), reads |-> 1]
               [] target = "on_markdown_view" ->
                    [pane |-> on_markdown_view(pane, path, opened), target |-> target,
                     outcome |-> render_outcome(target, opened, bitmap), reads |-> 1]
               [] target = "on_image_view" ->
                    [pane |-> on_image_view(pane, path, opened, bitmap),
                     target |-> target,
                     outcome |-> render_outcome(target, opened, bitmap), reads |-> 1]

PaneInit ==
    /\ content = EmptyContent
    /\ viewbox_classes = {} /\ preview_classes = {}
    /\ sub_title = <<>>
    /\ scroll_y = 0
    /\ app = "running"
    /\ last = NoEvent
    /\ prev_kind = "empty"
    /\ SelectIdle /\ RasterIdle

\* The user selects a file of the tree.  An exception that leaves the
\* handler reaches the framework's message loop, which ends the app.
FileSelected ==
    /\ app = "running"
    /\ \E path \in TreePaths, sniffed \in BOOLEAN, mime \in PaneMimes,
          opened \in BOOLEAN, bitmap \in Bitmaps :
          LET r == file_selected(Pane, path, sniffed, mime, opened, bitmap)
          IN  /\ content' = r.pane.content
              /\ viewbox_classes' = r.pane.viewbox_classes
              /\ preview_classes' = r.pane.preview_classes
              /\ sub_title' = r.pane.sub_title
              /\ scroll_y' = r.pane.scroll_y
              /\ app' = IF r.outcome = "escaped" THEN "crashed" ELSE "running"
              /\ last' = [path |-> path, sniffed |-> sniffed,
                          mime |-> IF sniffed THEN mime ELSE <<>>,
                          opened |-> opened, bitmap |-> bitmap,
                          target |-> r.target, outcome |-> r.outcome,
                          reads |-> r.reads,
                          scroll_before |-> scroll_y,
                          scroll_after |-> r.pane.scroll_y]
              /\ prev_kind' = content.kind
    /\ UNCHANGED <<selVars, rasterVars>>

\* The user scrolls the preview (VerticalScroll#code-view); an empty Static
\* leaves nothing to scroll.
Scroll ==
    /\ app = "running"
    /\ content.kind # "empty"
    /\ \E y \in 0..MaxScroll : y # scroll_y /\ scroll_y' = y
    /\ UNCHANGED <<content, viewbox_classes, preview_classes, sub_title, app, last,
                   prev_kind, selVars, rasterVars>>

\* The "q" binding.
Quit ==
    /\ app = "running"
    /\ app' = "exited"
    /\ UNCHANGED <<content, viewbox_classes, preview_classes, sub_title, scroll_y,
                   last, prev_kind, selVars, rasterVars>>

Next == FileSelected \/ Scroll \/ Quit

Spec == PaneInit /\ [][Next]_vars

(***************************************************************************)
(* Claims about the running application (checked under Spec).              *)
(***************************************************************************)
Handled == last.outcome # "none"

\* C3: every failure raised while a selection is handled (the MIME sniff of
\* a missing or unreadable path, the buffer sniff, reading, decoding,
\* rendering) is caught in the handler: the pane ends in the Error state
\* (diagnostic content, warning subtitle), nothing leaves the handler, and
\* the application keeps running.
C3_FailuresCaught ==
    /\ app # "crashed"
    /\ last.outcome \in {"failed", "escaped"} =>
           /\ content.kind = "traceback"
           /\ sub_title = ErrorMarker

\* C4: in every reachable state the image style class is set exactly when
\* the displayed content is a rasterized image: never with highlighted
\* code, rendered markdown or a raw MIME label.
C4_StyleMatchesContent ==
    /\ ("image" \in preview_classes) <=> (content.kind = "image")
    /\ ("image-view" \in viewbox_classes) <=> (content.kind = "image")

\* C6 as stated: whenever the selected mode is RawMimeLabel, the handler
\* opens no file and cannot fail: the content becomes the sniffed MIME
\* string and the subtitle the "Mime Type" marker.
C6_RawLabelNoIO ==
    (Handled /\ ModeOf(last.target) = "RawMimeLabel") =>
        /\ last.reads = 0
        /\ last.outcome = "labelled"
        /\ content = [kind |-> "label", of |-> last.mime]
        /\ sub_title = MimeTypeMarker

\* C6 as amended: a RawMimeLabel chosen for a top-level type other than
\* application, text and image opens no file and cannot fail; one chosen for
\* text/plain without extension first opens the file once (the buffer
\* sniff), and when that read raises the exception leaves the handler with
\* the pane untouched.  Whenever the label transition completes, the content
\* is the sniffed MIME string and the subtitle the "Mime Type" marker.
C6_RawLabel ==
    (Handled /\ ModeOf(last.target) = "RawMimeLabel") =>
        /\ last.target = "label" =>
               /\ TopLevelType(last.mime) \notin {s_application, s_text, s_image}
               /\ last.reads = 0
               /\ last.outcome = "labelled"
        /\ last.target = "sniffed_label" =>
               /\ last.mime = s_text_plain /\ ~HasExtension(last.path)
               /\ last.reads = 1
               /\ last.outcome = IF last.opened THEN "labelled" ELSE "escaped"
        /\ last.outcome = "labelled" =>
               /\ content = [kind |-> "label", of |-> last.mime]
               /\ sub_title = MimeTypeMarker
        /\ last.outcome = "escaped" => content.kind = prev_kind

\* README sniffed as text/plain has been labelled, after one read of the
\* file, over an earlier preview.
C6_Witness ==
    /\ last.target = "sniffed_label" /\ last.outcome = "labelled"
    /\ last.reads = 1
    /\ BaseName(last.path) = <<"R","E","A","D","M","E">>
    /\ content = [kind |-> "label", of |-> s_text_plain]
    /\ sub_title = MimeTypeMarker
    /\ prev_kind = "syntax"

InitialPane == [content |-> EmptyContent, viewbox_classes |-> {},
                preview_classes |-> {}, sub_title |-> <<>>, scroll_y |-> 0]

\* C7: after any sequence of selection events the displayed content and the
\* subtitle are those the last event alone produces: the same as in the run
\* in which the last event is the only one; nothing of an earlier event
\* survives.
C7_LastEventAlone ==
    Handled =>
        LET alone == file_selected(InitialPane, last.path, last.sniffed, last.mime,
                                   last.opened, last.bitmap).pane
        IN  /\ content = alone.content
            /\ sub_title = alone.sub_title

\* C8 as stated: after every selection rendered successfully in CodeView,
\* MarkdownView or ImageView the scroll position is at the top, whatever it
\* was, and the subtitle is the file's path.
C8_RenderedScrollsHome ==
    last.outcome = "rendered" =>
        /\ last.scroll_after = 0
        /\ sub_title = last.path

\* C8 as amended: after every selection rendered successfully the subtitle
\* is the file's path; in CodeView and MarkdownView the scroll position is
\* at the top when the handler returns, in ImageView it is where it was.
C8_Rendered ==
    last.outcome = "rendered" =>
        /\ sub_title = last.path
        /\ last.target \in {"on_code_view", "on_markdown_view", "on_image_view"}
        /\ last.target \in {"on_code_view", "on_markdown_view"} =>
               last.scroll_after = 0
        /\ last.target = "on_image_view" => last.scroll_after = last.scroll_before

\* A code view rendered from a scrolled-down pane has scrolled home.
C8_Witness ==
    /\ last.outcome = "rendered" /\ last.target = "on_code_view"
    /\ last.scroll_before > 0 /\ last.scroll_after = 0
    /\ sub_title = last.path

\* Some selection the running application accepts puts content of `kind`
\* on the pane (FileSelected's guard and its effect on the content).
CanSelectTo(kind) ==
    /\ app = "running"
    /\ \E path \in TreePaths, sniffed \in BOOLEAN, mime \in PaneMimes,
          opened \in BOOLEAN, bitmap \in Bitmaps :
          LET r == file_selected(Pane, path, sniffed, mime, opened, bitmap)
          IN  r.outcome # "escaped" /\ r.pane.content.kind = kind

\* C9: the pane has no terminal or absorbing state: until the user quits,
\* from every state each of CodeView, MarkdownView, ImageView, RawLabel and
\* Error is one selection away.
C9_NoTerminalState ==
    app # "exited" =>
        \A kind \in {"syntax", "markdown", "image", "label", "traceback"} :
            CanSelectTo(kind)

====
